---- MODULE Spec2Model ----
(***************************************************************************)
(* Model of bamcensus-acs/python/codegen.py: the ACS variable extractor    *)
(* and CSV / Rust code generator.                                          *)
(*                                                                         *)
(* Text is a sequence of tokens.  Every piece of markup the pattern names  *)
(* literally is one token ("<tr>", "<td>", ...); every other character is  *)
(* a one-character token.  No literal of the pattern can start or end      *)
(* inside a token, so matching the pattern token by token is matching it   *)
(* character by character.                                                 *)
(***************************************************************************)
EXTENDS Integers, Sequences, FiniteSets, TLC

(* ------------------------------ bounds --------------------------------- *)

\* Largest --indent value tried; row fragments are laid out with up to
\* MaxIndent + 1 spaces.
MaxIndent == 2
\* Largest number of row fragments in a source file.
MaxFrags == 2
\* Longest label in the label family of source files.
MaxLabelLen == 3

(* ------------------------------ tokens --------------------------------- *)

TR == "<tr>"
TD == "<td>"
AHREF == "<a href=\"variables/"
NAMEATTR == "\" name=\""
CLOSEQ == "\">"
ENDA == "</a>"
ENDTD == "</td>"
ENDTR == "</tr>"
NL == "\n"
SP == " "
TAB == "\t"

\* \w restricted to the characters the source files of the model use.
WordChars == {"A", "B", "E", "T", "a", "b", "t", "h", "n", "1", "2", "_"}

\* name_pat = "[\w:! ]"
name_pat == WordChars \cup {":", "!", " "}

Repeat(c, n) == [i \in 1..n |-> c]

(* --------------------------- to_name_path ------------------------------ *)

\* str.lower() on one character.
lower_char(c) ==
    CASE c = "A" -> "a"
      [] c = "B" -> "b"
      [] c = "E" -> "e"
      [] c = "T" -> "t"
      [] OTHER -> c

lower(s) == [i \in 1..Len(s) |-> lower_char(s[i])]

\* str.replace("!!", "."): leftmost, non-overlapping occurrences.
RECURSIVE replace_bangs(_)
replace_bangs(s) ==
    IF Len(s) = 0 THEN <<>>
    ELSE IF Len(s) >= 2 /\ s[1] = "!" /\ s[2] = "!"
         THEN <<".">> \o replace_bangs(SubSeq(s, 3, Len(s)))
         ELSE <<s[1]>> \o replace_bangs(Tail(s))

\* str.replace(":", "")
remove_colons(s) == SelectSeq(s, LAMBDA c : c # ":")

\* str.replace(" ", "_")
spaces_to_underscores(s) == [i \in 1..Len(s) |-> IF s[i] = " " THEN "_" ELSE s[i]]

to_name_path_keeps_spaces(name) == remove_colons(replace_bangs(lower(name)))

to_name_path(name) ==
    spaces_to_underscores(remove_colons(replace_bangs(lower(name))))

(* ------------------------------ pattern -------------------------------- *)

sep_two_spaces(indent) == <<SP, SP>>

\* sep = " " * args.indent
sep(indent) == Repeat(SP, indent)

\* The pattern of run(): the literal before the first ".*", the literal
\* between the identifier group and the label group, and the closing literal.
\* Between them stand  .*  NAMEATTR  .*  CLOSEQ  (\w+_\w+)  and  (name_pat+).
pattern(indent) ==
    IF indent = 0
    THEN [pre |-> <<TR, TD, AHREF>>,
          mid |-> <<ENDA, ENDTD, TD>>,
          post |-> <<ENDTD>>]
    ELSE [pre |-> <<TR, NL>> \o sep(indent) \o <<TD, AHREF>>,
          mid |-> <<ENDA, ENDTD, NL>> \o sep(indent) \o <<TD>>,
          post |-> <<ENDTD>>]

\* The literal lit stands in s at position i.
has_literal(s, i, lit) ==
    /\ i + Len(lit) - 1 <= Len(s)
    /\ \A x \in 1..Len(lit) : s[i + x - 1] = lit[x]

\* First position at or after i that holds no character of class.
RECURSIVE run_end(_, _, _)
run_end(s, i, class) ==
    IF i <= Len(s) /\ s[i] \in class THEN run_end(s, i + 1, class) ELSE i

\* "." matches everything but a line break.
no_newline(s, from, to) == \A x \in from..to : s[x] # NL

\* (\w+_\w+): a run of word characters with an underscore that is neither
\* its first nor its last character.
is_identifier(id) == \E u \in 2..(Len(id) - 1) : id[u] = "_"

\* The rest of the pattern from the identifier group on, tried at position i.
match_tail(pat, s, i) ==
    LET e == run_end(s, i, WordChars)
        l0 == e + Len(pat.mid)
        le == run_end(s, l0, name_pat)
    IN IF /\ is_identifier(SubSeq(s, i, e - 1))
          /\ has_literal(s, e, pat.mid)
          /\ le > l0
          /\ has_literal(s, le, pat.post)
       THEN [ok |-> TRUE, id |-> SubSeq(s, i, e - 1),
             label |-> SubSeq(s, l0, le - 1), end |-> le + Len(pat.post)]
       ELSE [ok |-> FALSE, id |-> <<>>, label |-> <<>>, end |-> i]

\* The match of the pattern that starts at position i, if there is one.  Both
\* ".*" are greedy: of all the ways to place NAMEATTR (at j) and CLOSEQ (at k)
\* the regex engine returns the one with the largest j and, for it, the
\* largest k.
match_at(pat, s, i) ==
    LET p1 == i + Len(pat.pre)
        ways == {jk \in (p1..Len(s)) \X (p1..Len(s)) :
                    /\ jk[1] < jk[2]
                    /\ s[jk[1]] = NAMEATTR
                    /\ s[jk[2]] = CLOSEQ
                    /\ no_newline(s, p1, jk[2] - 1)
                    /\ match_tail(pat, s, jk[2] + 1).ok}
    IN IF has_literal(s, i, pat.pre) /\ ways # {}
       THEN LET j == CHOOSE j \in {w[1] : w \in ways} :
                         \A w \in ways : w[1] <= j
                k == CHOOSE k \in {w[2] : w \in {v \in ways : v[1] = j}} :
                         \A w \in {v \in ways : v[1] = j} : w[2] <= k
            IN match_tail(pat, s, k + 1)
       ELSE [ok |-> FALSE, id |-> <<>>, label |-> <<>>, end |-> i]

\* re.findall(pattern, contents): the non-overlapping matches, left to right,
\* each as the pair of its two groups.
RECURSIVE findall_from(_, _, _)
findall_from(pat, s, i) ==
    IF i > Len(s) THEN <<>>
    ELSE LET m == match_at(pat, s, i)
         IN IF m.ok
            THEN << <<m.id, m.label>> >> \o findall_from(pat, s, m.end)
            ELSE findall_from(pat, s, i + 1)

findall(pat, s) == findall_from(pat, s, 1)

(* ------------------------------ emitters ------------------------------- *)

RECURSIVE join(_, _)
\* separator.join(items)
join(separator, items) ==
    IF Len(items) = 0 THEN <<>>
    ELSE IF Len(items) = 1 THEN items[1]
    ELSE items[1] \o separator \o join(separator, Tail(items))

\* str.split(delim): the pieces between the occurrences of delim.
RECURSIVE split(_, _)
split(s, delim) ==
    LET e == run_end(s, 1, {c \in {s[x] : x \in 1..Len(s)} : c # delim})
    IN IF e > Len(s) THEN <<s>>
       ELSE <<SubSeq(s, 1, e - 1)>> \o split(SubSeq(s, e + 1, Len(s)), delim)

csv_header == <<"group", ",", "variable", ",", "path">>

csv_row_unnormalized(identifier, name) ==
    LET parts == split(identifier, "_")
    IN parts[1] \o <<",">> \o parts[2] \o <<",">> \o name \o <<NL>>

\* One iteration of the loop of write_csv, for an identifier that unpacks
\* into two parts.
csv_row(identifier, name) ==
    LET parts == split(identifier, "_")
    IN parts[1] \o <<",">> \o parts[2] \o <<",">> \o to_name_path(name) \o <<NL>>

\* The rows write_csv writes until the loop ends or the unpacking of
\* identifier.split("_") raises ValueError.
RECURSIVE csv_rows(_)
csv_rows(ms) ==
    IF Len(ms) = 0 THEN [data |-> <<>>, raised |-> FALSE]
    ELSE IF Len(split(ms[1][1], "_")) # 2 THEN [data |-> <<>>, raised |-> TRUE]
    ELSE LET rest == csv_rows(Tail(ms))
         IN [data |-> csv_row(ms[1][1], ms[1][2]) \o rest.data,
             raised |-> rest.raised]

\* write_csv: what the file holds when the with block is left, and whether it
\* is left by an exception.
write_csv(ms) ==
    LET rows == csv_rows(ms)
    IN [data |-> csv_header \o <<NL>> \o rows.data, raised |-> rows.raised]

class_name == "ClassName"

to_string_gen(group, name) ==
    <<"                C::">> \o group \o <<" => String::from(\"">> \o name
        \o <<"\")">>

to_path_gen(group, name) ==
    <<"                C::">> \o group \o <<" => Ok(String::from(\"">>
        \o to_name_path(name) \o <<"\"))">>

\* The group part of an identifier: what stands before its first underscore.
group_of(identifier) == split(identifier, "_")[1]

\* A generator that declares one variant per distinct group, named by the
\* group, in first-seen order.
enums_one_per_group(ms) ==
    LET first == SelectSeq([i \in 1..Len(ms) |-> i],
                           LAMBDA i : \A j \in 1..(i - 1) :
                               group_of(ms[j][1]) # group_of(ms[i][1]))
    IN join(<<",\n">>,
            [x \in 1..Len(first) |-> <<"    ">> \o group_of(ms[first[x]][1])])

\* enums = ",\n".join([f"    {g}" for g, _ in matches])
enums(ms) == join(<<",\n">>, [i \in 1..Len(ms) |-> <<"    ">> \o ms[i][1]])

tostr(ms) == join(<<",\n">>, [i \in 1..Len(ms) |-> to_string_gen(ms[i][1], ms[i][2])])

topath(ms) == join(<<",\n">>, [i \in 1..Len(ms) |-> to_path_gen(ms[i][1], ms[i][2])])

\* The fixed text of the template, with {classname} filled in.
codegen_head ==
    "use serde::{Deserialize, Serialize};\n\n#[derive(Serialize, Deserialize)]\n#[serde(rename_all = \"SCREAMING_SNAKE_CASE\")]\npub enum ClassName {\n"

codegen_tostr ==
    "\n}\n\nimpl ToString for ClassName {\n    fn to_string(&self) -> String {\n        use ClassName as C;\n        match self {\n"

codegen_topath ==
    "\n        }\n    }\n}\n\nimpl ClassName {\n    \n    fn to_path(&self) -> String {\n        use ClassName as C;\n        match self {\n"

codegen_tail == "\n        }\n    }\n}\n    "

\* write_rust: the text written to the file.
codegen(ms) ==
    <<codegen_head>> \o enums(ms) \o <<codegen_tostr>> \o tostr(ms)
        \o <<codegen_topath>> \o topath(ms) \o <<codegen_tail>>

(* ---------------------------- source files ----------------------------- *)

\* --indent's default
DefaultIndent == 2

\* A row fragment of the source file: the row-opening tag, the anchor cell
\* and the label cell, with sep1 before the anchor cell and sep2 before the
\* label cell.
render_frag(f) ==
    <<TR>> \o f.sep1 \o <<TD, AHREF, "h", NAMEATTR, "n", CLOSEQ>> \o f.id
        \o <<ENDA, ENDTD>> \o f.sep2 \o <<TD>> \o f.label \o <<ENDTD>>

\* The source file made of the fragments fs, with joiner between them.
render(fs, joiner) == join(joiner, [i \in 1..Len(fs) |-> render_frag(fs[i])])

\* Fragments follow each other on one line, or each on lines of its own.
SameLine == <<ENDTR>>
OwnLine == <<NL, ENDTR, NL>>

\* What a file may put before a cell: nothing, a bare line break, a line
\* break and a tab, a line break and 1 .. MaxIndent + 1 spaces.
Seps ==
    {<<>>, <<NL>>, <<NL, TAB>>} \cup {<<NL>> \o Repeat(SP, k) : k \in 1..(MaxIndent + 1)}

\* The layout a file written for --indent k gives every cell.
LayoutFor(k) == IF k = 0 THEN <<>> ELSE <<NL>> \o Repeat(SP, k)

Letters == <<"A", "B", "E", "T">>
PlainLabel == <<"E", "!", "!", "T", ":", " ", "a">>

\* Layout family: files laid out for some indent k, but for one fragment whose
\* two separators are arbitrary.  The fragment at position i has the
\* identifier Letters[i]_1.
LayoutFrags ==
    UNION {UNION {{[i \in 1..n |->
                      [sep1 |-> IF i = d THEN s[1] ELSE LayoutFor(k),
                       sep2 |-> IF i = d THEN s[2] ELSE LayoutFor(k),
                       id |-> <<Letters[i], "_", "1">>,
                       label |-> PlainLabel]] :
                   d \in 1..n, s \in Seps \X Seps} :
                 k \in 0..MaxIndent} :
           n \in 1..MaxFrags}

\* Identifier family: files of 0 .. MaxFrags fragments, all laid out alike,
\* with identifiers that share a group, repeat, or hold two underscores.
Identifiers ==
    {<<"A", "_", "1">>, <<"A", "_", "2">>, <<"B", "_", "1">>,
     <<"B", "_", "1", "_", "2">>}

RECURSIVE IdSeqs(_)
IdSeqs(n) ==
    IF n = 0 THEN {<<>>}
    ELSE IdSeqs(n - 1) \cup
         {Append(ids, id) : ids \in {q \in IdSeqs(n - 1) : Len(q) = n - 1},
                            id \in Identifiers}

IdentifierFrags(k) ==
    {[i \in 1..Len(ids) |->
         [sep1 |-> LayoutFor(k), sep2 |-> LayoutFor(k), id |-> ids[i],
          label |-> IF i % 2 = 1 THEN PlainLabel ELSE <<"t", "2">>]] :
     ids \in IdSeqs(MaxFrags)}

\* Label family: one fragment laid out for the default indent, with every
\* label of 1 .. MaxLabelLen characters of LabelChars.
LabelChars == {"E", "t", "!", ":", " "}

RECURSIVE LabelsOfLen(_)
LabelsOfLen(n) ==
    IF n = 0 THEN {<<>>}
    ELSE {Append(l, c) : l \in LabelsOfLen(n - 1), c \in LabelChars}

Labels == UNION {LabelsOfLen(n) : n \in 1..MaxLabelLen}

LabelFrags ==
    {<<[sep1 |-> LayoutFor(DefaultIndent), sep2 |-> LayoutFor(DefaultIndent),
        id |-> <<"A", "_", "1">>, label |-> l]>> : l \in Labels}

(* -------------------------------- state -------------------------------- *)

None == "None"
Paths == {"p", "q"}
NoFile == [exists |-> FALSE, data |-> <<>>]
OldFile == [exists |-> TRUE, data |-> <<"old">>]

VARIABLES
    frags,      \* the row fragments the source file is made of
    contents,   \* the text of the source file
    args,       \* parser.parse_args(): indent, csv, rs, overwrite
    fs0,        \* the files before the run
    fs,         \* the files
    opened,     \* the open(..., "w") calls so far: <<emitter, path>>
    matches,    \* run's matches
    stdout,     \* what was printed
    status,     \* <<v>> once run returned v
    exitcode,   \* <<c>> once the process ended with exit code c
    pc          \* where the process is

vars == <<frags, contents, args, fs0, fs, opened, matches, stdout, status,
          exitcode, pc>>

Init ==
    /\ \/ /\ frags \in LayoutFrags
          /\ \E joiner \in {SameLine, OwnLine} : contents = render(frags, joiner)
          /\ args \in [indent : 0..MaxIndent, csv : {None}, rs : {"q"},
                       overwrite : {TRUE}]
          /\ fs0 = [p \in Paths |-> NoFile]
       \/ /\ \E lay \in {<<0, SameLine>>, <<0, OwnLine>>, <<DefaultIndent, OwnLine>>} :
                /\ frags \in IdentifierFrags(lay[1])
                /\ contents = render(frags, lay[2])
          /\ args \in [indent : {0, DefaultIndent}, csv : {None, "p"},
                       rs : {None, "p", "q"}, overwrite : BOOLEAN]
          /\ fs0 \in [Paths -> {NoFile, OldFile}]
       \/ /\ frags \in LabelFrags
          /\ contents = render(frags, OwnLine)
          /\ args = [indent |-> DefaultIndent, csv |-> "p", rs |-> "q",
                     overwrite |-> FALSE]
          /\ fs0 = [p \in Paths |-> NoFile]
    /\ fs = fs0
    /\ opened = <<>>
    /\ matches = <<>>
    /\ stdout = <<>>
    /\ status = <<>>
    /\ exitcode = <<>>
    /\ pc = "parse"

never_no_matches(ms) == FALSE

\* len(matches) == 0
no_matches(ms) == Len(ms) = 0

\* args.X is not None and (not os.path.exists(args.X) or args.overwrite)
shall_write(path) ==
    path # None /\ (~fs[path].exists \/ args.overwrite)

\* Lines 89-100: the pattern is built, the source file read and searched.
Extract ==
    /\ pc = "parse"
    /\ matches' = findall(pattern(args.indent), contents)
    /\ pc' = "extracted"
    /\ UNCHANGED <<frags, contents, args, fs0, fs, opened, stdout, status, exitcode>>

\* Lines 102-105: no match; the message and the usage are printed, run
\* returns 1.
ReportNoMatches ==
    /\ pc = "extracted"
    /\ no_matches(matches)
    /\ stdout' = stdout \o <<"no matches found in source file, check formatting",
                             "usage">>
    /\ status' = <<1>>
    /\ pc' = "returned"
    /\ UNCHANGED <<frags, contents, args, fs0, fs, opened, matches, exitcode>>

\* Lines 107-108: the CSV file is written, unless it is not asked for or is
\* there and not to be overwritten.  A ValueError of write_csv leaves run.
CsvStage ==
    /\ pc = "extracted"
    /\ ~no_matches(matches)
    /\ IF shall_write(args.csv)
       THEN LET w == write_csv(matches)
            IN /\ fs' = [fs EXCEPT ![args.csv] = [exists |-> TRUE, data |-> w.data]]
               /\ opened' = Append(opened, <<"write_csv", args.csv>>)
               /\ pc' = IF w.raised THEN "raised" ELSE "csv_done"
       ELSE /\ pc' = "csv_done"
            /\ UNCHANGED <<fs, opened>>
    /\ UNCHANGED <<frags, contents, args, fs0, matches, stdout, status, exitcode>>

\* Lines 109-112: the same for the Rust file; run returns 0.
RsStage ==
    /\ pc = "csv_done"
    /\ IF shall_write(args.rs)
       THEN /\ fs' = [fs EXCEPT ![args.rs] = [exists |-> TRUE, data |-> codegen(matches)]]
            /\ opened' = Append(opened, <<"write_rust", args.rs>>)
       ELSE UNCHANGED <<fs, opened>>
    /\ status' = <<0>>
    /\ pc' = "returned"
    /\ UNCHANGED <<frags, contents, args, fs0, matches, stdout, exitcode>>

\* Lines 115-116: the script calls run() and drops what it returns, so the
\* interpreter ends with exit code 0; an uncaught exception ends it with 1.
ProcessExit ==
    /\ pc \in {"returned", "raised"}
    /\ exitcode' = IF pc = "raised" THEN <<1>> ELSE <<0>>
    /\ pc' = "exited"
    /\ UNCHANGED <<frags, contents, args, fs0, fs, opened, matches, stdout, status>>

Next == Extract \/ ReportNoMatches \/ CsvStage \/ RsStage \/ ProcessExit

Spec == Init /\ [][Next]_vars

(* ------------------------------- claims -------------------------------- *)

Range(s) == {s[i] : i \in 1..Len(s)}

\* The fragment is laid out as the pattern for --indent k asks.
LaidOutFor(f, k) == f.sep1 = LayoutFor(k) /\ f.sep2 = LayoutFor(k)

\* The two-character sequence "!!" stands in s.
HasBangBang(s) == \E i \in 1..(Len(s) - 1) : s[i] = "!" /\ s[i + 1] = "!"

\* The tokens of data between the tokens from and to.
Between(data, from, to) ==
    LET a == CHOOSE i \in 1..Len(data) : data[i] = from
        b == CHOOSE i \in 1..Len(data) : data[i] = to
    IN SubSeq(data, a + 1, b - 1)

\* The three comma-newline joined sections of a generated Rust file.
VariantItems(data) ==
    split(Between(data, codegen_head, codegen_tostr), ",\n")
LabelArms(data) ==
    split(Between(data, codegen_tostr, codegen_topath), ",\n")
PathArms(data) ==
    split(Between(data, codegen_topath, codegen_tail), ",\n")

\* The distinct groups of the records ms, in first-seen order.
DistinctGroups(ms) ==
    LET first == SelectSeq([i \in 1..Len(ms) |-> i],
                           LAMBDA i : \A j \in 1..(i - 1) :
                               group_of(ms[j][1]) # group_of(ms[i][1]))
    IN [x \in 1..Len(first) |-> group_of(ms[first[x]][1])]

RustWritten == <<"write_rust", args.rs>> \in Range(opened)

\* write_csv ran to its end and nothing has written to its file since.
CsvWrittenCompletely ==
    /\ opened # <<>>
    /\ opened[1] = <<"write_csv", args.csv>>
    /\ \/ pc = "csv_done"
       \/ pc \in {"returned", "exited"} /\ status = <<0>> /\ args.rs # args.csv

\* C1: a run whose extraction yields no record creates, truncates and modifies
\* no file, whatever exists and whatever --overwrite says; it prints the
\* no-match message and the usage and returns 1 instead of raising.
C1_NoMatchWritesNothing ==
    (pc # "parse" /\ Len(matches) = 0) =>
        /\ fs = fs0
        /\ opened = <<>>
        /\ pc # "raised"
        /\ pc \in {"returned", "exited"} =>
              /\ status = <<1>>
              /\ stdout = <<"no matches found in source file, check formatting",
                            "usage">>

C1_Witness ==
    /\ pc = "exited"
    /\ Len(frags) > 0
    /\ Len(matches) = 0
    /\ args.csv = "p" /\ args.rs = "q" /\ args.overwrite
    /\ fs0["p"].exists /\ ~fs0["q"].exists

\* C2: the process ends with exit code 1 whenever extraction yields no record,
\* and with exit code 0 whenever run returns 0.
C2_ExitCode ==
    pc = "exited" =>
        /\ Len(matches) = 0 => exitcode = <<1>>
        /\ status = <<0>> => exitcode = <<0>>

\* C3: for each requested destination of a run that extracted records, all
\* with identifiers of two parts: if it exists before the run and --overwrite
\* is not set, it is unchanged, nothing is printed, run returns 0 and the
\* other requested destination is processed; if --overwrite is set, it holds
\* exactly its emitter's output for matches.
C3_OverwriteSemantics ==
    (/\ pc = "exited"
     /\ Len(matches) > 0
     /\ \A r \in 1..Len(matches) : Len(split(matches[r][1], "_")) = 2) =>
        \A d \in {[emitter |-> "write_csv", path |-> args.csv,
                   out |-> write_csv(matches).data,
                   other |-> <<"write_rust", args.rs>>],
                  [emitter |-> "write_rust", path |-> args.rs,
                   out |-> codegen(matches),
                   other |-> <<"write_csv", args.csv>>]} :
            d.path # None =>
                /\ (fs0[d.path].exists /\ ~args.overwrite) =>
                      /\ fs[d.path] = fs0[d.path]
                      /\ stdout = <<>>
                      /\ status = <<0>>
                      /\ (d.other[2] # None /\ ~fs0[d.other[2]].exists) =>
                             d.other \in Range(opened)
                /\ args.overwrite =>
                      fs[d.path] = [exists |-> TRUE, data |-> d.out]

\* C4: when every row fragment of the source file is laid out for the
\* configured indent, extraction returns one record per fragment, in document
\* order, with the fragment's identifier and label.
C4_OneRecordPerFragment ==
    (pc # "parse" /\ \A i \in 1..Len(frags) : LaidOutFor(frags[i], args.indent)) =>
        matches = [i \in 1..Len(frags) |-> <<frags[i].id, frags[i].label>>]

\* C5 as claimed: the generated code declares one variant per distinct group
\* of the identifiers, in first-seen order, with one label arm and one path
\* arm per variant.
C5_OneVariantPerGroup ==
    RustWritten =>
        LET data == fs[args.rs].data
            groups == DistinctGroups(matches)
        IN /\ Len(VariantItems(data)) = Len(groups)
           /\ Len(LabelArms(data)) = Len(groups)
           /\ Len(PathArms(data)) = Len(groups)
           /\ \A i \in 1..Len(groups) :
                 group_of(Tail(VariantItems(data)[i])) = groups[i]

\* C5 as amended: the generated code declares one variant per record of the
\* extraction set, named by the record's whole identifier, in extraction
\* order and with repetitions kept, and one label arm and one path arm per
\* record, the label arm with the record's label, the path arm with
\* to_name_path(label).
C5_OneVariantPerRecord ==
    RustWritten =>
        LET data == fs[args.rs].data
        IN /\ VariantItems(data) =
                 [i \in 1..Len(matches) |-> <<"    ">> \o matches[i][1]]
           /\ LabelArms(data) =
                 [i \in 1..Len(matches) |->
                     <<"                C::">> \o matches[i][1]
                        \o <<" => String::from(\"">> \o matches[i][2] \o <<"\")">>]
           /\ PathArms(data) =
                 [i \in 1..Len(matches) |->
                     <<"                C::">> \o matches[i][1]
                        \o <<" => Ok(String::from(\"">>
                        \o to_name_path(matches[i][2]) \o <<"\"))">>]

C5_Witness ==
    /\ pc = "exited"
    /\ RustWritten
    /\ Len(matches) = 2
    /\ matches[1][1] = <<"A", "_", "1">>
    /\ matches[2][1] = <<"A", "_", "2">>

\* C6: a CSV file write_csv wrote completely is the header line
\* group,variable,path and one newline-terminated row per record, in
\* extraction order; each row has three comma-separated fields, the first two
\* joined by "_" are the record's identifier and the third is
\* to_name_path(label).
C6_CsvRoundTrip ==
    CsvWrittenCompletely =>
        LET lines == split(fs[args.csv].data, NL)
        IN /\ Len(lines) = Len(matches) + 2
           /\ lines[Len(lines)] = <<>>
           /\ lines[1] = <<"group", ",", "variable", ",", "path">>
           /\ \A i \in 1..Len(matches) :
                 LET fields == split(lines[i + 1], ",")
                 IN /\ Len(fields) = 3
                    /\ fields[1] \o <<"_">> \o fields[2] = matches[i][1]
                    /\ fields[3] = to_name_path(matches[i][2])

C6_Witness ==
    /\ pc = "exited"
    /\ CsvWrittenCompletely
    /\ Len(matches) = 2
    /\ matches[1][1] # matches[2][1]
    /\ fs0[args.csv].exists

\* C7: when write_csv fails on an identifier with more than one underscore,
\* the CSV destination does not hold, after the run, a truncated file: the
\* header and the rows of fewer records than were extracted.
C7_NoPartialCsv ==
    (pc = "exited" /\ exitcode = <<1>>) =>
        ~ /\ fs[args.csv].exists
          /\ LET lines == split(fs[args.csv].data, NL)
             IN /\ lines[1] = <<"group", ",", "variable", ",", "path">>
                /\ Len(lines) < Len(matches) + 2

C9_NormalizeClean ==
    \A r \in 1..Len(matches) :
        LET path == to_name_path(matches[r][2])
        IN /\ ~HasBangBang(path)
           /\ ":" \notin Range(path)
           /\ " " \notin Range(path)
           /\ to_name_path(path) = path

\* C9 as amended: for every extracted label, to_name_path(label) holds no ":"
\* and no space, and to_name_path leaves it unchanged exactly when it holds
\* no "!!".
C9_NormalizeIdempotentIffNoBangs ==
    \A r \in 1..Len(matches) :
        LET path == to_name_path(matches[r][2])
        IN /\ ":" \notin Range(path)
           /\ " " \notin Range(path)
           /\ (to_name_path(path) = path) <=> ~HasBangBang(path)

C9_Witness ==
    /\ pc = "exited"
    /\ matches = << <<(<<"A", "_", "1">>), (<<"!", ":", "!">>)>> >>
    /\ CsvWrittenCompletely

\* C10: no file is opened for writing by both emitters in one run, and a
\* destination that was to be written when the run started is written by its
\* own emitter.
C10_EmittersDisjoint ==
    /\ \A i, j \in 1..Len(opened) : i # j => opened[i][2] # opened[j][2]
    /\ (/\ pc = "exited"
        /\ status = <<0>>
        /\ args.rs # None
        /\ ~fs0[args.rs].exists \/ args.overwrite) => RustWritten

====
